---------------------------- MODULE Spec2Model ----------------------------
(***************************************************************************)
(* Model of the position-based-dynamics constraints of elasty              *)
(* (src/src/constraint.cpp): the projection kernel projectPositions, the   *)
(* inverse-mass vector construction, and the five constraint classes       *)
(* Distance, FixedPoint, EnvironmentalCollision, Bending and               *)
(* IsometricBending with calculateValue / calculateGrad / projectParticles.*)
(*                                                                         *)
(* A double is modelled as an extended rational <<n, d>>:                  *)
(*   d > 0, gcd(|n|, d) = 1   the finite value n / d                       *)
(*   <<1, 0>>, <<-1, 0>>      +infinity, -infinity                         *)
(*   <<0, 0>>                 NaN                                          *)
(* with the IEEE-754 rules for the non-finite values (x/0, inf*0, inf-inf, *)
(* comparisons with NaN are false).  Rounding is not modelled: the scenes  *)
(* are chosen so that every square root taken is of a perfect square       *)
(* (checked by NormsExact).                                                *)
(***************************************************************************)
EXTENDS Integers, Sequences, FiniteSets, TLC

(***************************************************************************)
(* Scalars                                                                 *)
(***************************************************************************)
RECURSIVE GCD(_, _)
GCD(a, b) == IF b = 0 THEN a ELSE GCD(b, a % b)

AbsInt(n) == IF n < 0 THEN -n ELSE n

SignInt(n) == IF n < 0 THEN -1 ELSE IF n > 0 THEN 1 ELSE 0

NaN == <<0, 0>>

Zero == <<0, 1>>

One == <<1, 1>>

Half == <<1, 2>>

Three == <<3, 1>>

\* the rational n / d in lowest terms; d = 0 gives the sign of n as an infinity (0/0: NaN)
Q(n, d) ==
    IF d = 0 THEN <<SignInt(n), 0>>
    ELSE LET s == IF d < 0 THEN -1 ELSE 1
             g == GCD(AbsInt(n), AbsInt(d))
         IN  <<(s * n) \div g, (s * d) \div g>>

IsNaN(a) == a = NaN

IsInf(a) == a[2] = 0 /\ a[1] # 0

IsFinite(a) == a[2] > 0

Neg(a) == <<-a[1], a[2]>>

Add(a, b) ==
    IF IsNaN(a) \/ IsNaN(b) THEN NaN
    ELSE IF IsInf(a) /\ IsInf(b) THEN (IF a = b THEN a ELSE NaN)
    ELSE IF IsInf(a) THEN a
    ELSE IF IsInf(b) THEN b
    ELSE LET g == GCD(a[2], b[2])
         IN  Q(a[1] * (b[2] \div g) + b[1] * (a[2] \div g), (a[2] \div g) * b[2])

Sub(a, b) == Add(a, Neg(b))

Mul(a, b) ==
    IF IsNaN(a) \/ IsNaN(b) THEN NaN
    ELSE IF IsInf(a) \/ IsInf(b)
         THEN (IF a[1] = 0 \/ b[1] = 0 THEN NaN ELSE <<SignInt(a[1]) * SignInt(b[1]), 0>>)
    ELSE LET g == GCD(AbsInt(a[1]), b[2])
             h == GCD(AbsInt(b[1]), a[2])
         IN  IF a[1] = 0 \/ b[1] = 0 THEN Zero
             ELSE Q((a[1] \div g) * (b[1] \div h), (a[2] \div h) * (b[2] \div g))

\* a / b; every divisor of the program is a norm or a sum of squares, so a zero divisor is +0
Div(a, b) ==
    IF IsNaN(a) \/ IsNaN(b) THEN NaN
    ELSE IF IsInf(a) /\ IsInf(b) THEN NaN
    ELSE IF IsInf(b) THEN Zero
    ELSE IF IsInf(a) THEN (IF b[1] < 0 THEN Neg(a) ELSE a)
    ELSE IF b[1] = 0 THEN <<SignInt(a[1]), 0>>
    ELSE LET g == GCD(AbsInt(a[1]), AbsInt(b[1]))
             h == GCD(a[2], b[2])
         IN  IF a[1] = 0 THEN Zero
             ELSE Q((a[1] \div g) * (b[2] \div h), (a[2] \div h) * (b[1] \div g))

\* a < b; false when either is NaN
Lt(a, b) ==
    IF IsNaN(a) \/ IsNaN(b) THEN FALSE
    ELSE IF IsInf(a) /\ IsInf(b) THEN a[1] < b[1]
    ELSE a[1] * b[2] < b[1] * a[2]

\* a <= b; false when either is NaN
Le(a, b) == ~IsNaN(a) /\ ~IsNaN(b) /\ ~Lt(b, a)

\* a >= b; false when either is NaN
Ge(a, b) == Le(b, a)

\* std::abs
Abs(a) == <<AbsInt(a[1]), a[2]>>

\* std::min(a, b) == (b < a) ? b : a
StdMin(a, b) == IF Lt(b, a) THEN b ELSE a

\* std::max(a, b) == (a < b) ? b : a
StdMax(a, b) == IF Lt(a, b) THEN b ELSE a

\* Newton's iteration from an estimate r >= floor(sqrt(n))
RECURSIVE ISqrtFrom(_, _)
ISqrtFrom(n, r) ==
    LET next == (r + n \div r) \div 2
    IN  IF next >= r THEN r ELSE ISqrtFrom(n, next)

\* the integer square root (floor)
ISqrt(n) == IF n < 2 THEN n ELSE ISqrtFrom(n, n)

IsSquare(n) == ISqrt(n) * ISqrt(n) = n

\* std::sqrt; exact on the squares of rationals
Sqrt(a) ==
    IF IsNaN(a) \/ a[1] < 0 THEN NaN
    ELSE IF IsInf(a) THEN a
    ELSE Q(ISqrt(a[1]), ISqrt(a[2]))

\* the square root of a is exact in the model
ExactRoot(a) == IsFinite(a) /\ a[1] >= 0 => IsSquare(a[1]) /\ IsSquare(a[2])

(***************************************************************************)
(* Vectors (tuples of scalars, of any length) and 3x3 matrices             *)
(***************************************************************************)
V3(a, b, c) == <<Q(a, 1), Q(b, 1), Q(c, 1)>>

ZeroVec(n) == [i \in 1..n |-> Zero]

NaNVec(n) == [i \in 1..n |-> NaN]

VAdd(u, v) == [i \in 1..Len(u) |-> Add(u[i], v[i])]

VSub(u, v) == [i \in 1..Len(u) |-> Sub(u[i], v[i])]

VNeg(u) == [i \in 1..Len(u) |-> Neg(u[i])]

VScale(s, u) == [i \in 1..Len(u) |-> Mul(s, u[i])]

VDivS(u, s) == [i \in 1..Len(u) |-> Div(u[i], s)]

RECURSIVE DotFrom(_, _, _)
DotFrom(u, v, i) ==
    IF i > Len(u) THEN Zero ELSE Add(Mul(u[i], v[i]), DotFrom(u, v, i + 1))

Dot(u, v) == IF Len(u) = 0 THEN Zero ELSE DotFrom(u, v, 1)

SquaredNorm(u) == Dot(u, u)

Norm(u) == Sqrt(SquaredNorm(u))

Cross(u, v) ==
    << Sub(Mul(u[2], v[3]), Mul(u[3], v[2])),
       Sub(Mul(u[3], v[1]), Mul(u[1], v[3])),
       Sub(Mul(u[1], v[2]), Mul(u[2], v[1])) >>

HasNaN(u) == \E i \in 1..Len(u) : IsNaN(u[i])

AllFinite(u) == \A i \in 1..Len(u) : IsFinite(u[i])

\* segment(3 * j, 3) of a stacked vector, j counted from 0
Segment(u, j) == <<u[3 * j + 1], u[3 * j + 2], u[3 * j + 3]>>


\* a Matrix3d is a tuple of three rows
MAdd(A, B) == [i \in 1..3 |-> VAdd(A[i], B[i])]

MNeg(A) == [i \in 1..3 |-> VNeg(A[i])]

MScale(s, A) == [i \in 1..3 |-> VScale(s, A[i])]

MTranspose(A) == [i \in 1..3 |-> [j \in 1..3 |-> A[j][i]]]

MApply(A, v) == [i \in 1..3 |-> Dot(A[i], v)]

\* u * v.transpose()
Outer(u, v) == [i \in 1..3 |-> [j \in 1..3 |-> Mul(u[i], v[j])]]

(***************************************************************************)
(* The build: the two things the source leaves to the toolchain.           *)
(*   ndebug          assert() is compiled out (NDEBUG)                     *)
(*   guardedNormalize  Eigen's normalized() returns a zero-norm vector     *)
(*                   unchanged (Eigen >= 3.3) instead of dividing it by    *)
(*                   its norm 0 (Eigen <= 3.2, giving NaN)                 *)
(***************************************************************************)
Builds == [ndebug : BOOLEAN, guardedNormalize : BOOLEAN]

\* Eigen's MatrixBase::normalized()
normalized(v, build) ==
    IF build.guardedNormalize
    THEN LET z == SquaredNorm(v)
         IN  IF Lt(Zero, z) THEN VDivS(v, Sqrt(z)) ELSE v
    ELSE VDivS(v, Norm(v))

\* Eigen's default precision of isApprox for double, 1e-12, squared; the
\* value stands in for 1e-24, which is only ever multiplied by min(|a|^2, 0)
Prec2 == Q(1, 1000000)

\* grad_C.isApprox(Zero()): |a - 0|^2 <= prec^2 * min(|a|^2, |0|^2)
isApproxZero(a) ==
    Le(SquaredNorm(VSub(a, ZeroVec(Len(a)))),
       Mul(Prec2, StdMin(SquaredNorm(a), SquaredNorm(ZeroVec(Len(a))))))

\* pi / 2, as 11/7
HalfPi == Q(11, 7)

\* std::acos on [-1, 1]: exact at -1, 0 and 1 (pi, pi/2, 0), the only
\* arguments the scenes produce (checked by AcosExact); the chord between
Acos(d) == Mul(HalfPi, Sub(One, d))

(***************************************************************************)
(* Anonymous-namespace helpers of constraint.cpp                           *)
(***************************************************************************)
convert_vector_to_cross_operator(vec) ==
    << <<Zero,        vec[3],      Neg(vec[2])>>,
       <<Neg(vec[3]), Zero,        vec[1]>>,
       <<vec[2],      Neg(vec[1]), Zero>> >>

calculateCotTheta(x, y) ==
    LET cos_theta == Dot(x, y)
        sin_theta == Norm(Cross(x, y))
    IN  Div(cos_theta, sin_theta)

\* grad_C.transpose() * inv_M.asDiagonal() * grad_C
Denominator(grad_C, inv_M) ==
    Dot([i \in 1..Len(grad_C) |-> Mul(grad_C[i], inv_M[i])], grad_C)

\* (mutant) delta_x without its minus sign
DeltaX_Positive(s, grad_C, inv_M) ==
    [i \in 1..Len(grad_C) |-> Mul(Mul(s, inv_M[i]), grad_C[i])]

\* - s * inv_M.asDiagonal() * grad_C
DeltaX(s, grad_C, inv_M) ==
    [i \in 1..Len(grad_C) |-> Mul(Mul(Neg(s), inv_M[i]), grad_C[i])]

\* (mutant) the j-th segment added to the particle with id j + 1 of the
\* store instead of the j-th particle of the constraint
RECURSIVE UpdatePositions_ByStoreIndex(_, _, _, _, _)
UpdatePositions_ByStoreIndex(P, ids, stiffness, delta_x, j) ==
    IF j >= Len(ids) THEN P
    ELSE UpdatePositions_ByStoreIndex(
            [P EXCEPT ![j + 1].p = VAdd(@, VScale(stiffness, Segment(delta_x, j)))],
            ids, stiffness, delta_x, j + 1)

\* the loop of projectPositions from j on: particles[j]->p += stiffness * delta_x.segment(3 * j, 3)
RECURSIVE UpdatePositions(_, _, _, _, _)
UpdatePositions(P, ids, stiffness, delta_x, j) ==
    IF j >= Len(ids) THEN P
    ELSE UpdatePositions(
            [P EXCEPT ![ids[j + 1]].p = VAdd(@, VScale(stiffness, Segment(delta_x, j)))],
            ids, stiffness, delta_x, j + 1)

\* projectPositions<Num>: the particles after the call, and what the kernel did:
\*   "skipped"  the gradient was (approximately) zero, nothing evaluated
\*   "aborted"  assert(!delta_x.hasNaN()) failed in a build with assertions
\*   "applied"  the positions were updated
projectPositions(C, grad_C, inv_M, stiffness, ids, P, build) ==
    IF isApproxZero(grad_C)
    THEN [kernel |-> "skipped", den |-> NaN, particles |-> P]
    ELSE LET den     == Denominator(grad_C, inv_M)
             s       == Div(C, den)
             delta_x == DeltaX(s, grad_C, inv_M)
         IN  IF HasNaN(delta_x) /\ ~build.ndebug
             THEN [kernel |-> "aborted", den |-> den, particles |-> P]
             ELSE [kernel |-> "applied", den |-> den,
                   particles |-> UpdatePositions(P, ids, stiffness, delta_x, 0)]

\* constructInverseMassMatrix<Num>
constructInverseMassMatrix(ids, P) ==
    [i \in 1..(3 * Len(ids)) |-> P[ids[((i - 1) \div 3) + 1]].w]

(***************************************************************************)
(* Constraints.  A constraint is a record; m_particles holds the ids of    *)
(* the particles it shares with the owner (std::shared_ptr<Particle>).     *)
(* P is the particle store: P[id] = [p |-> predicted position,             *)
(* x |-> rest position, w |-> inverse mass].                               *)
(***************************************************************************)

\* ---- BendingConstraint ----

\* the constructor: m_inv_M is not in its initializer list, so the member
\* holds whatever the build leaves there (uninit)
BendingConstraint(p_0, p_1, p_2, p_3, stiffness, dihedral_angle, uninit) ==
    [type |-> "Bending", m_particles |-> <<p_0, p_1, p_2, p_3>>,
     m_stiffness |-> stiffness, m_inv_M |-> uninit,
     m_dihedral_angle |-> dihedral_angle]

\* n_0.dot(n_1) of the two triangle normals
BendingNormalsDot(c, P, build) ==
    LET x_0 == P[c.m_particles[1]].p
        p_1 == VSub(P[c.m_particles[2]].p, x_0)
        p_2 == VSub(P[c.m_particles[3]].p, x_0)
        p_3 == VSub(P[c.m_particles[4]].p, x_0)
        n_0 == normalized(Cross(p_1, p_2), build)
        n_1 == normalized(Cross(p_1, p_3), build)
    IN  Dot(n_0, n_1)

\* std::acos(std::min(+ 1.0, std::max(- 1.0, n_0.dot(n_1))))
BendingCurrentAngle(c, P, build) ==
    Acos(StdMin(One, StdMax(Neg(One), BendingNormalsDot(c, P, build))))

BendingConstraint_calculateValue(c, P, build) ==
    Sub(BendingCurrentAngle(c, P, build), c.m_dihedral_angle)

\* the three assert()s of BendingConstraint::calculateValue hold
BendingConstraint_calculateValue_asserts(c, P, build) ==
    LET x_0  == P[c.m_particles[1]].p
        p_10 == VSub(P[c.m_particles[2]].p, x_0)
        p_20 == VSub(P[c.m_particles[3]].p, x_0)
        p_30 == VSub(P[c.m_particles[4]].p, x_0)
    IN  /\ ~HasNaN(normalized(Cross(p_10, p_20), build))
        /\ ~HasNaN(normalized(Cross(p_10, p_30), build))
        /\ ~IsNaN(BendingCurrentAngle(c, P, build))

\* the constexpr epsilon = 1e-12 of BendingConstraint::calculateGrad (as 1e-6:
\* the numerators and denominators of the model are 32-bit)
epsilon == Q(1, 1000000)

\* the test of BendingConstraint::calculateGrad that returns zeros
BendingDegenerate(d) == Lt(Sub(Abs(d), One), epsilon)

\* the lambda calculate_gradient_of_normalized_cross_product_wrt_p_1(p_1, p_2, n)
calculate_gradient_of_normalized_cross_product_wrt_p_1(p_1, p_2, n) ==
    MScale(Div(One, Norm(Cross(p_1, p_2))),
           MAdd(MNeg(convert_vector_to_cross_operator(p_2)), Outer(n, Cross(n, p_2))))

\* the lambda calculate_gradient_of_normalized_cross_product_wrt_p_2(p_1, p_2, n)
calculate_gradient_of_normalized_cross_product_wrt_p_2(p_1, p_2, n) ==
    MScale(Neg(Div(One, Norm(Cross(p_1, p_2)))),
           MAdd(MNeg(convert_vector_to_cross_operator(p_1)), Outer(n, Cross(n, p_1))))

\* the closed-form branch of BendingConstraint::calculateGrad (the lambdas are
\* called with (n, p_1, p_2), as in the source)
BendingClosedForm(c, P, build) ==
    LET x_0 == P[c.m_particles[1]].p
        p_1 == VSub(P[c.m_particles[2]].p, x_0)
        p_2 == VSub(P[c.m_particles[3]].p, x_0)
        p_3 == VSub(P[c.m_particles[4]].p, x_0)
        n_0 == normalized(Cross(p_1, p_2), build)
        n_1 == normalized(Cross(p_1, p_3), build)
        d   == Dot(n_0, n_1)
        common_coeff == Div(Neg(One), Sqrt(Sub(One, Mul(d, d))))
        g1  == VScale(common_coeff,
                 VAdd(MApply(MTranspose(calculate_gradient_of_normalized_cross_product_wrt_p_1(n_0, p_1, p_2)), n_1),
                      MApply(MTranspose(calculate_gradient_of_normalized_cross_product_wrt_p_1(n_1, p_1, p_3)), n_0)))
        g2  == MApply(MScale(common_coeff,
                 MTranspose(calculate_gradient_of_normalized_cross_product_wrt_p_2(n_0, p_1, p_2))), n_1)
        g3  == MApply(MScale(common_coeff,
                 MTranspose(calculate_gradient_of_normalized_cross_product_wrt_p_2(n_1, p_1, p_3))), n_0)
        g0  == VSub(VSub(VNeg(g1), g2), g3)
    IN  g0 \o g1 \o g2 \o g3

BendingConstraint_calculateGrad(c, P, build) ==
    IF BendingDegenerate(BendingNormalsDot(c, P, build))
    THEN ZeroVec(12)
    ELSE BendingClosedForm(c, P, build)

\* ---- DistanceConstraint ----

DistanceConstraint(p_0, p_1, stiffness, d, P) ==
    [type |-> "Distance", m_particles |-> <<p_0, p_1>>,
     m_stiffness |-> stiffness,
     m_inv_M |-> constructInverseMassMatrix(<<p_0, p_1>>, P),
     m_d |-> d]

DistanceConstraint_calculateValue(c, P) ==
    Sub(Norm(VSub(P[c.m_particles[1]].p, P[c.m_particles[2]].p)), c.m_d)

\* random is the value Eigen::Vector3d::Random(3).normalized() would give
DistanceConstraint_calculateGrad(c, P, build, random) ==
    LET n0 == normalized(VSub(P[c.m_particles[1]].p, P[c.m_particles[2]].p), build)
        n  == IF HasNaN(n0) THEN random ELSE n0
    IN  n \o VNeg(n)

\* ---- EnvironmentalCollisionConstraint ----

EnvironmentalCollisionConstraint(p_0, stiffness, n, d, P) ==
    [type |-> "EnvironmentalCollision", m_particles |-> <<p_0>>,
     m_stiffness |-> stiffness,
     m_inv_M |-> constructInverseMassMatrix(<<p_0>>, P),
     m_n |-> n, m_d |-> d]

\* (mutant) the offset added instead of subtracted
EnvironmentalCollisionConstraint_calculateValue_PlusOffset(c, P) ==
    Add(Dot(c.m_n, P[c.m_particles[1]].p), c.m_d)

EnvironmentalCollisionConstraint_calculateValue(c, P) ==
    Sub(Dot(c.m_n, P[c.m_particles[1]].p), c.m_d)

EnvironmentalCollisionConstraint_calculateGrad(c) == c.m_n

\* ---- FixedPointConstraint ----

FixedPointConstraint(p_0, stiffness, point, P) ==
    [type |-> "FixedPoint", m_particles |-> <<p_0>>,
     m_stiffness |-> stiffness,
     m_inv_M |-> constructInverseMassMatrix(<<p_0>>, P),
     m_point |-> point]

FixedPointConstraint_calculateValue(c, P) ==
    Norm(VSub(P[c.m_particles[1]].p, c.m_point))

\* the std::fill of the degenerate branch is followed by the unconditional
\* std::memcpy of n, which is what the caller receives
FixedPointConstraint_calculateGrad(c, P, build) ==
    LET n == normalized(VSub(P[c.m_particles[1]].p, c.m_point), build)
    IN  n

\* ---- IsometricBendingConstraint ----

\* the matrix m_Q the constructor derives from the rest positions
IsometricBendingQ(x_0, x_1, x_2, x_3) ==
    LET e0 == VSub(x_1, x_0)
        e1 == VSub(x_2, x_1)
        e2 == VSub(x_0, x_2)
        e3 == VSub(x_3, x_0)
        e4 == VSub(x_1, x_3)
        cot_01 == calculateCotTheta(e0, VNeg(e1))
        cot_02 == calculateCotTheta(e0, VNeg(e2))
        cot_03 == calculateCotTheta(e0, e3)
        cot_04 == calculateCotTheta(e0, e4)
        K   == << Add(cot_01, cot_04), Add(cot_02, cot_03),
                  Sub(Neg(cot_01), cot_02), Sub(Neg(cot_03), cot_04) >>
        A_0 == Mul(Half, Norm(Cross(e0, e1)))
        A_1 == Mul(Half, Norm(Cross(e0, e3)))
        f   == Div(Three, Add(A_0, A_1))
    IN  [i \in 1..4 |-> [j \in 1..4 |-> Mul(Mul(f, K[i]), K[j])]]

IsometricBendingConstraint(p_0, p_1, p_2, p_3, stiffness, P) ==
    [type |-> "IsometricBending", m_particles |-> <<p_0, p_1, p_2, p_3>>,
     m_stiffness |-> stiffness,
     m_inv_M |-> constructInverseMassMatrix(<<p_0, p_1, p_2, p_3>>, P),
     m_Q |-> IsometricBendingQ(P[p_0].x, P[p_1].x, P[p_2].x, P[p_3].x)]

RECURSIVE IsoSum(_, _, _)
IsoSum(c, P, k) ==
    IF k > 16 THEN Zero
    ELSE LET i == ((k - 1) \div 4) + 1
             j == ((k - 1) % 4) + 1
         IN  Add(Mul(c.m_Q[i][j], Dot(P[c.m_particles[i]].p, P[c.m_particles[j]].p)),
                 IsoSum(c, P, k + 1))

IsometricBendingConstraint_calculateValue(c, P) == Mul(Half, IsoSum(c, P, 1))

RECURSIVE IsoRow(_, _, _, _)
IsoRow(c, P, i, j) ==
    IF j > 4 THEN ZeroVec(3)
    ELSE VAdd(VScale(c.m_Q[i][j], P[c.m_particles[j]].p), IsoRow(c, P, i, j + 1))

IsometricBendingConstraint_calculateGrad(c, P) ==
    IsoRow(c, P, 1, 1) \o IsoRow(c, P, 2, 1) \o IsoRow(c, P, 3, 1) \o IsoRow(c, P, 4, 1)

(***************************************************************************)
(* State                                                                   *)
(***************************************************************************)
VARIABLES
    particles,    \* the particle store: id -> [p, x, w]
    constraints,  \* the constraints, in the order the owner projects them
    build,        \* the build: see Builds
    aborted,      \* a failed assert() has ended the program
    calls,        \* the number of projectParticles() calls made
    last          \* the last call: what it was given, computed and did

vars == <<particles, constraints, build, aborted, calls, last>>

\* ---- bounds and input sets ----

NumParticles == 5

MaxCalls == 3

MaxConstraints == 3

ParticleIds == 1..NumParticles

Stiffnesses == {Zero, Half, One}

InvMasses == {Zero, One, Q(2, 1)}

\* the directions Eigen::Vector3d::Random(3).normalized() is drawn from
RandomDirs == {V3(0, 1, 0), V3(-1, 0, 0)}

\* every particle at rest at (id, 0, -1) with inverse mass 1
BaseParticles ==
    [i \in ParticleIds |-> [p |-> V3(i, 0, -1), x |-> V3(i, 0, -1), w |-> One]]

Place(P, id, pos, w) == [P EXCEPT ![id] = [p |-> pos, x |-> pos, w |-> w]]

NoCall == [op |-> "none", c |-> 0, value |-> NaN, grad |-> <<>>,
           kernel |-> "none", den |-> NaN, pre |-> <<>>]

\* ---- scenes: the particles and constraints the owner has constructed ----

DistanceOffsets == {V3(0, 0, 0), V3(0, 1, 0), V3(0, 2, 0), V3(1, 2, 2)}

DistanceInvMasses ==
    {<<One, One>>, <<One, Zero>>, <<Zero, One>>, <<Zero, Zero>>, <<Q(2, 1), One>>}

DistanceScenes ==
    { LET P == Place(Place(BaseParticles, 3, off, w[1]), 1, V3(0, 0, 0), w[2])
      IN  [particles |-> P, constraints |-> <<DistanceConstraint(3, 1, k, d, P)>>] :
        off \in DistanceOffsets, d \in {Zero, One},
        k \in Stiffnesses, w \in DistanceInvMasses }

FixedPointScenes ==
    { LET P == Place(BaseParticles, 2, VAdd(point, off), w0)
      IN  [particles |-> P, constraints |-> <<FixedPointConstraint(2, k, point, P)>>] :
        point \in {V3(0, 0, 0), V3(1, 0, 0)},
        off \in {V3(0, 0, 0), V3(0, 2, 0), V3(1, 2, 2)},
        k \in Stiffnesses, w0 \in InvMasses }

EnvironmentalCollisionScenes ==
    { LET P == Place(BaseParticles, 4, pos, w0)
      IN  [particles |-> P,
           constraints |-> <<EnvironmentalCollisionConstraint(4, k, n, d, P)>>] :
        n \in {V3(0, 1, 0), V3(0, 2, 0), V3(0, 0, 0)},
        pos \in {V3(0, 1, 0), V3(0, 0, 0), <<Zero, Q(-1, 2), Zero>>, V3(1, -2, 0)},
        d \in {Zero, One}, k \in {Half, One}, w0 \in {Zero, One} }

\* what an uninitialised Matrix<double, 12, 1> may hold: zeros, NaNs,
\* or by chance the inverse masses
UninitialisedKinds == {"zeros", "nans", "masses"}

UninitialisedInvM(kind, ids, P) ==
    CASE kind = "zeros" -> ZeroVec(12)
      [] kind = "nans" -> NaNVec(12)
      [] OTHER -> constructInverseMassMatrix(ids, P)

\* two triangles on the edge (0,0,0)-(1,0,0); (2,0,0) makes the first one degenerate
BendingScenes ==
    { LET P == Place(Place(Place(Place(BaseParticles,
                  2, V3(0, 0, 0), w0), 3, V3(1, 0, 0), w0), 4, x2, w0), 5, x3, w0)
      IN  [particles |-> P,
           constraints |-> <<BendingConstraint(2, 3, 4, 5, k, angle,
                                 UninitialisedInvM(u, <<2, 3, 4, 5>>, P))>>] :
        x2 \in {V3(0, 1, 0), V3(0, 0, 1), V3(2, 0, 0)},
        x3 \in {V3(0, 1, 0), V3(0, -1, 0), V3(0, 0, 1)},
        angle \in {Zero, HalfPi},
        k \in {One}, w0 \in {Zero, One}, u \in UninitialisedKinds }

\* a planar quad at rest; the predicted position of the last vertex is lifted by dz
IsometricBendingScenes ==
    { LET R == Place(Place(Place(Place(BaseParticles,
                  5, V3(0, 0, 0), w[1]), 1, V3(2, 0, 0), w[2]),
                  2, V3(1, 1, 0), w[3]), 3, V3(1, -1, 0), w[4])
          P == [R EXCEPT ![3].p = V3(1, -1, dz)]
      IN  [particles |-> P,
           constraints |-> <<IsometricBendingConstraint(5, 1, 2, 3, k, P)>>] :
        dz \in {0, 1, -2}, k \in {Half, One},
        w \in {<<Zero, Zero, Zero, Zero>>, <<One, One, One, One>>,
               <<One, Zero, One, Q(2, 1)>>} }

\* a chain on the y axis: particle 3 pinned to the origin by a fixed point,
\* tied to particle 1 by a distance, particle 1 kept above the plane y = 3
ChainScenes ==
    { LET P == Place(Place(BaseParticles, 3, V3(0, y3, 0), w0), 1, V3(0, 2, 0), w1)
      IN  [particles |-> P,
           constraints |-> << FixedPointConstraint(3, k, V3(0, 0, 0), P),
                              DistanceConstraint(3, 1, k, One, P),
                              EnvironmentalCollisionConstraint(1, k, V3(0, 1, 0), Three, P) >>] :
        y3 \in {0, 1}, k \in {One}, w0 \in {Zero, One}, w1 \in {One} }

Scenes ==
    DistanceScenes \cup FixedPointScenes \cup EnvironmentalCollisionScenes
        \cup BendingScenes \cup IsometricBendingScenes \cup ChainScenes

Init ==
    /\ \E scene \in Scenes :
         /\ particles = scene.particles
         /\ constraints = scene.constraints
    /\ build \in Builds
    /\ aborted = FALSE
    /\ calls = 0
    /\ last = NoCall

(***************************************************************************)
(* Operations: one action per method of each constraint class              *)
(***************************************************************************)
IsA(i, type) == i \in 1..Len(constraints) /\ constraints[i].type = type

\* calculateValue() or calculateGrad() returns: nothing but the result is new
Returns(op, i, value, grad) ==
    /\ last' = [NoCall EXCEPT !.op = op, !.c = i, !.value = value, !.grad = grad,
                              !.pre = particles]
    /\ UNCHANGED <<particles, constraints, build, aborted, calls>>

\* a failed assert() of calculateValue() ends the program
Aborts(op, i) ==
    /\ aborted' = TRUE
    /\ last' = [NoCall EXCEPT !.op = op, !.c = i, !.kernel = "aborted", !.pre = particles]
    /\ UNCHANGED <<particles, constraints, build, calls>>

\* projectParticles() hands C and grad_C to the kernel
Projects(i, C, grad_C, Num) ==
    LET c == constraints[i]
        r == projectPositions(C, grad_C, c.m_inv_M, c.m_stiffness,
                              SubSeq(c.m_particles, 1, Num), particles, build)
    IN  /\ particles' = r.particles
        /\ aborted' = (r.kernel = "aborted")
        /\ calls' = calls + 1
        /\ last' = [op |-> "projectParticles", c |-> i, value |-> C, grad |-> grad_C,
                    kernel |-> r.kernel, den |-> r.den, pre |-> particles]
        /\ UNCHANGED <<constraints, build>>

BendingCalculateValue(i) ==
    /\ ~aborted /\ IsA(i, "Bending")
    /\ IF ~build.ndebug /\ ~BendingConstraint_calculateValue_asserts(constraints[i], particles, build)
       THEN Aborts("calculateValue", i)
       ELSE Returns("calculateValue", i,
                    BendingConstraint_calculateValue(constraints[i], particles, build), <<>>)

BendingCalculateGrad(i) ==
    /\ ~aborted /\ IsA(i, "Bending")
    /\ Returns("calculateGrad", i, NaN,
               BendingConstraint_calculateGrad(constraints[i], particles, build))

BendingProjectParticles(i) ==
    /\ ~aborted /\ IsA(i, "Bending") /\ calls < MaxCalls
    /\ IF ~build.ndebug /\ ~BendingConstraint_calculateValue_asserts(constraints[i], particles, build)
       THEN /\ Aborts("projectParticles", i)
       ELSE /\ Projects(i, BendingConstraint_calculateValue(constraints[i], particles, build),
                        BendingConstraint_calculateGrad(constraints[i], particles, build), 4)

DistanceCalculateValue(i) ==
    /\ ~aborted /\ IsA(i, "Distance")
    /\ Returns("calculateValue", i,
               DistanceConstraint_calculateValue(constraints[i], particles), <<>>)

DistanceCalculateGrad(i) ==
    /\ ~aborted /\ IsA(i, "Distance")
    /\ \E random \in RandomDirs :
         Returns("calculateGrad", i, NaN,
                 DistanceConstraint_calculateGrad(constraints[i], particles, build, random))

DistanceProjectParticles(i) ==
    /\ ~aborted /\ IsA(i, "Distance") /\ calls < MaxCalls
    /\ \E random \in RandomDirs :
         Projects(i, DistanceConstraint_calculateValue(constraints[i], particles),
                  DistanceConstraint_calculateGrad(constraints[i], particles, build, random), 2)

EnvironmentalCollisionCalculateValue(i) ==
    /\ ~aborted /\ IsA(i, "EnvironmentalCollision")
    /\ Returns("calculateValue", i,
               EnvironmentalCollisionConstraint_calculateValue(constraints[i], particles), <<>>)

EnvironmentalCollisionCalculateGrad(i) ==
    /\ ~aborted /\ IsA(i, "EnvironmentalCollision")
    /\ Returns("calculateGrad", i, NaN,
               EnvironmentalCollisionConstraint_calculateGrad(constraints[i]))

EnvironmentalCollisionProjectParticles(i) ==
    /\ ~aborted /\ IsA(i, "EnvironmentalCollision") /\ calls < MaxCalls
    /\ LET C == EnvironmentalCollisionConstraint_calculateValue(constraints[i], particles)
       IN  IF Ge(C, Zero)
           THEN /\ last' = [NoCall EXCEPT !.op = "projectParticles", !.c = i, !.value = C,
                                          !.pre = particles]
                /\ calls' = calls + 1
                /\ UNCHANGED <<particles, constraints, build, aborted>>
           ELSE Projects(i, C, EnvironmentalCollisionConstraint_calculateGrad(constraints[i]), 1)

FixedPointCalculateValue(i) ==
    /\ ~aborted /\ IsA(i, "FixedPoint")
    /\ Returns("calculateValue", i,
               FixedPointConstraint_calculateValue(constraints[i], particles), <<>>)

FixedPointCalculateGrad(i) ==
    /\ ~aborted /\ IsA(i, "FixedPoint")
    /\ Returns("calculateGrad", i, NaN,
               FixedPointConstraint_calculateGrad(constraints[i], particles, build))

FixedPointProjectParticles(i) ==
    /\ ~aborted /\ IsA(i, "FixedPoint") /\ calls < MaxCalls
    /\ Projects(i, FixedPointConstraint_calculateValue(constraints[i], particles),
                FixedPointConstraint_calculateGrad(constraints[i], particles, build), 1)

IsometricBendingCalculateValue(i) ==
    /\ ~aborted /\ IsA(i, "IsometricBending")
    /\ Returns("calculateValue", i,
               IsometricBendingConstraint_calculateValue(constraints[i], particles), <<>>)

IsometricBendingCalculateGrad(i) ==
    /\ ~aborted /\ IsA(i, "IsometricBending")
    /\ Returns("calculateGrad", i, NaN,
               IsometricBendingConstraint_calculateGrad(constraints[i], particles))

IsometricBendingProjectParticles(i) ==
    /\ ~aborted /\ IsA(i, "IsometricBending") /\ calls < MaxCalls
    /\ Projects(i, IsometricBendingConstraint_calculateValue(constraints[i], particles),
                IsometricBendingConstraint_calculateGrad(constraints[i], particles), 4)

Next ==
    \E i \in 1..MaxConstraints :
        \/ BendingCalculateValue(i)
        \/ BendingCalculateGrad(i)
        \/ BendingProjectParticles(i)
        \/ DistanceCalculateValue(i)
        \/ DistanceCalculateGrad(i)
        \/ DistanceProjectParticles(i)
        \/ EnvironmentalCollisionCalculateValue(i)
        \/ EnvironmentalCollisionCalculateGrad(i)
        \/ EnvironmentalCollisionProjectParticles(i)
        \/ FixedPointCalculateValue(i)
        \/ FixedPointCalculateGrad(i)
        \/ FixedPointProjectParticles(i)
        \/ IsometricBendingCalculateValue(i)
        \/ IsometricBendingCalculateGrad(i)
        \/ IsometricBendingProjectParticles(i)

Spec == Init /\ [][Next]_vars

\* ---- sanity of the model's arithmetic ----

\* every norm the constraints take in this state is of a perfect square
NormsExact ==
    \A i \in 1..Len(constraints) :
        LET c == constraints[i]
            X(j) == particles[c.m_particles[j]].p
        IN  CASE c.type = "Distance" -> ExactRoot(SquaredNorm(VSub(X(1), X(2))))
              [] c.type = "FixedPoint" -> ExactRoot(SquaredNorm(VSub(X(1), c.m_point)))
              [] c.type = "Bending" ->
                    /\ ExactRoot(SquaredNorm(Cross(VSub(X(2), X(1)), VSub(X(3), X(1)))))
                    /\ ExactRoot(SquaredNorm(Cross(VSub(X(2), X(1)), VSub(X(4), X(1)))))
              [] OTHER -> TRUE

\* std::acos is only taken at -1, 0 and 1 (or NaN)
AcosExact ==
    \A i \in 1..Len(constraints) :
        constraints[i].type = "Bending" =>
            BendingNormalsDot(constraints[i], particles, build)
                \in {Neg(One), Zero, One, NaN}

(***************************************************************************)
(* Claims                                                                  *)
(***************************************************************************)
Projected(type) ==
    last.op = "projectParticles" /\ last.c > 0 /\ constraints[last.c].type = type

Returned(op, type) == last.op = op /\ last.c > 0 /\ constraints[last.c].type = type

\* the constraint of the last call and its j-th particle before and after the call
LastC == constraints[last.c]

PreP(j) == last.pre[LastC.m_particles[j]].p

PostP(j) == particles[LastC.m_particles[j]].p

AllPositionsFinite == \A id \in ParticleIds : AllFinite(particles[id].p)

\* C1: whenever the kernel evaluates its denominator it is not zero, and no
\* position is ever non-finite (as stated; refuted by a pinned particle with
\* a non-zero gradient)
C1_DenominatorNeverZero ==
    /\ last.kernel \in {"applied", "aborted"} => last.den # Zero
    /\ AllPositionsFinite

\* C2: at the anchor, FixedPointConstraint::calculateGrad returns the zero
\* vector and projectParticles skips the update (as stated; refuted where
\* normalized() yields NaN, which the memcpy hands on)
C2_FixedPointZeroGradient ==
    /\ Returned("calculateGrad", "FixedPoint") /\ PreP(1) = LastC.m_point
          => last.grad = ZeroVec(3)
    /\ Projected("FixedPoint") /\ PreP(1) = LastC.m_point
          => last.grad = ZeroVec(3) /\ last.kernel = "skipped"

\* n_0 . n_1 of the Bending constraint of the last call, before the call
PreNormalsDot == BendingNormalsDot(LastC, last.pre, build)

\* C3: BendingConstraint::calculateGrad returns zeros if and only if |n0.n1|
\* is within epsilon of 1, and projectParticles moves a particle at a fold
\* with |n0.n1| < 1, non-zero violation and movable particles (as stated;
\* refuted by the right-angle fold)
C3_BendingGradientZeroIffDegenerate ==
    /\ Returned("calculateGrad", "Bending") /\ IsFinite(PreNormalsDot)
          => (last.grad = ZeroVec(12) <=> Lt(Sub(One, Abs(PreNormalsDot)), epsilon))
    /\ Projected("Bending") /\ PreNormalsDot = Zero /\ last.value # Zero
          /\ LastC.m_inv_M = [i \in 1..12 |-> One]
          => particles # last.pre

\* C4: a projectParticles call at violation exactly 0 leaves every position
\* unchanged (as stated; refuted by two pinned particles exactly d apart)
C4_IdempotentWhenSatisfied ==
    last.op = "projectParticles" /\ last.value = Zero => particles = last.pre

\* C5: projectParticles never moves a particle whose inverse mass is 0 (as
\* stated; refuted when every particle of the constraint is pinned)
C5_PinnedNeverMoved ==
    last.op = "projectParticles" =>
        \A id \in ParticleIds :
            particles[id].w = Zero => particles[id].p = last.pre[id].p

\* the distance of the two particles of the Distance constraint of the last call
PreDistance == Norm(VSub(PreP(1), PreP(2)))

PostDistance == Norm(VSub(PostP(1), PostP(2)))

\* the last call projected a Distance constraint of stiffness 1 with equal
\* positive inverse masses
FullEqualDistanceCall ==
    /\ Projected("Distance")
    /\ LastC.m_stiffness = One
    /\ particles[LastC.m_particles[1]].w = particles[LastC.m_particles[2]].w
    /\ Lt(Zero, particles[LastC.m_particles[1]].w)
    /\ IsFinite(PreDistance)

\* C6: for a DistanceConstraint of stiffness 1 with equal positive inverse
\* masses, a projectParticles call never increases |distance - d|, brings
\* distinct particles to distance d (the first call already, so within 50),
\* and leaves particles at distance d where they are
C6_DistanceConverges ==
    FullEqualDistanceCall =>
        /\ Le(Abs(Sub(PostDistance, LastC.m_d)), Abs(Sub(PreDistance, LastC.m_d)))
        /\ Lt(Zero, PreDistance) => Le(Abs(Sub(PostDistance, LastC.m_d)), epsilon)
        /\ PreDistance = LastC.m_d => PostDistance = LastC.m_d

\* C6 witness: the spec's example, distance 2 and d = 1, brought to distance 1
\* by a call, and a later call that found it there
C6_Witness ==
    /\ FullEqualDistanceCall
    /\ calls >= 2
    /\ LastC.m_d = One
    /\ PreDistance = One /\ PostDistance = One
    /\ Norm(VSub(particles[LastC.m_particles[1]].x, particles[LastC.m_particles[2]].x)) = Q(2, 1)

\* n . x - d of the EnvironmentalCollision constraint of the last call, after it
PostPlaneValue == Sub(Dot(LastC.m_n, PostP(1)), LastC.m_d)

MovedAlongNormal == Cross(VSub(PostP(1), PreP(1)), LastC.m_n) = ZeroVec(3)

\* the last call found the particle under a plane (n # 0) that it can leave
PenetratingCall ==
    /\ Projected("EnvironmentalCollision")
    /\ Lt(last.value, Zero)
    /\ Lt(Zero, particles[LastC.m_particles[1]].w)
    /\ LastC.m_n # ZeroVec(3)

\* C7 (as stated): C >= 0 leaves the position unchanged; C < 0 with a positive
\* inverse mass moves the particle along n to n.x - d >= -epsilon
C7_OneSided ==
    /\ Projected("EnvironmentalCollision") /\ Ge(last.value, Zero)
          => particles = last.pre
    /\ PenetratingCall => MovedAlongNormal /\ Ge(PostPlaneValue, Neg(epsilon))

\* C7 (amended): C >= 0 leaves the position unchanged; C < 0 with a positive
\* inverse mass moves the particle along n to n.x - d = (1 - stiffness) * C,
\* which is >= -epsilon when the stiffness is 1
C7_OneSidedByStiffness ==
    /\ Projected("EnvironmentalCollision") /\ Ge(last.value, Zero)
          => particles = last.pre
    /\ PenetratingCall
          => /\ MovedAlongNormal
             /\ PostPlaneValue = Mul(Sub(One, LastC.m_stiffness), last.value)
             /\ LastC.m_stiffness = One => Ge(PostPlaneValue, Neg(epsilon))

\* C7 witness: the spec's example, y = -1/2 under the plane y = 0, put on the plane
C7_Witness ==
    /\ PenetratingCall
    /\ LastC.m_n = V3(0, 1, 0) /\ LastC.m_d = Zero /\ LastC.m_stiffness = One
    /\ last.value = Q(-1, 2)
    /\ PostPlaneValue = Zero
    /\ particles # last.pre

\* C8: with coincident particles DistanceConstraint::calculateGrad returns a
\* unit n and -n, and projectParticles with d > 0, positive stiffness and a
\* positive inverse mass separates them (as stated; refuted where
\* normalized() returns the zero vector unchanged)
C8_CoincidentSeparated ==
    /\ Returned("calculateGrad", "Distance") /\ PreP(1) = PreP(2)
          => /\ SquaredNorm(SubSeq(last.grad, 1, 3)) = One
             /\ SubSeq(last.grad, 4, 6) = VNeg(SubSeq(last.grad, 1, 3))
    /\ Projected("Distance") /\ PreP(1) = PreP(2)
          /\ Lt(Zero, LastC.m_d) /\ Lt(Zero, LastC.m_stiffness)
          /\ (\E j \in 1..2 : Lt(Zero, particles[LastC.m_particles[j]].w))
          => Lt(Zero, PostDistance)

\* the ids a constraint references
Referenced(c) == {c.m_particles[j] : j \in 1..Len(c.m_particles)}

\* the displacement the kernel's formula gives the j-th particle (j from 0)
\* of the call recorded in l
Correction(l, c, j) ==
    VScale(c.m_stiffness,
           Segment(DeltaX(Div(l.value, l.den), l.grad, c.m_inv_M), j))

\* one step keeps the frame: constraints, inverse masses and rest positions
\* are unchanged; calculateValue and calculateGrad change no particle;
\* projectParticles changes only the positions of the particles its
\* constraint references, the j-th by the j-th entry of the correction
FrameStep ==
    /\ constraints' = constraints
    /\ \A id \in ParticleIds :
          /\ particles'[id].w = particles[id].w
          /\ particles'[id].x = particles[id].x
    /\ last'.op \in {"calculateValue", "calculateGrad"} => particles' = particles
    /\ last'.op = "projectParticles" =>
          LET c == constraints[last'.c]
          IN  /\ \A id \in ParticleIds \ Referenced(c) : particles'[id] = particles[id]
              /\ last'.kernel = "applied" =>
                    \A j \in 1..Len(c.m_particles) :
                        particles'[c.m_particles[j]].p =
                            VAdd(particles[c.m_particles[j]].p, Correction(last', c, j - 1))
              /\ last'.kernel # "applied" => particles' = particles

\* C9: calculateValue and calculateGrad change nothing, projectParticles
\* changes only the positions of the particles its own constraint references
\* (entry j of the correction to the j-th of them); inverse masses, rest
\* positions, other particles and every constraint's parameters never change
C9_Frame == [][FrameStep]_vars

\* C9 witness: a call has moved the first particle of a two-particle
\* constraint and left its pinned second particle and the others alone
C9_Witness ==
    /\ Projected("Distance") /\ last.kernel = "applied"
    /\ PostP(1) # PreP(1) /\ PostP(2) = PreP(2)
    /\ AllPositionsFinite

\* the per-axis replication of the inverse masses of c's particles
ReplicatedInverseMasses(c) ==
    [i \in 1..(3 * Len(c.m_particles)) |->
        particles[c.m_particles[((i - 1) \div 3) + 1]].w]

\* C10: the cached inverse-mass vector of every constraint is the per-axis
\* replication of its particles' inverse masses, from construction on (as
\* stated; refuted by BendingConstraint, whose constructor leaves it unset)
C10_InverseMassCached ==
    \A i \in 1..Len(constraints) :
        constraints[i].m_inv_M = ReplicatedInverseMasses(constraints[i])

=============================================================================
